---- MODULE Spec2Model ----
(***************************************************************************)
(* SkiMath: the race controller (Game), the gate sequence (GateManager)    *)
(* and the skier's motion states (SkierController) as a state machine.     *)
(*                                                                         *)
(* Lengths are integers in units of 0.05 world units (POLE_RADIUS = 1),    *)
(* times are milliseconds.  The specifications:                           *)
(*   Spec       whole races; a Normal update moves the skier to the same   *)
(*              or the next sample position downhill, at any sampled       *)
(*              lateral position;                                          *)
(*   SpecSkier  a few frames with the kinematics of update() (turn angle,  *)
(*              velocity) in fixed point, and a second run of the game on  *)
(*              the same input events;                                     *)
(*   SpecCourse the gates as createGates lays them, one spacing per gate;  *)
(*   SpecFlags  checkFlagCollision on skier positions around the poles;    *)
(*   SpecController  update, crash, tumble, reset and the key handlers of  *)
(*              SkierController called in any order;                       *)
(*   SpecGrid   ObstacleManager and its SpatialGrid: addObstacle, clear,   *)
(*              checkCollision and query called in any order.              *)
(***************************************************************************)
EXTENDS Integers, Sequences, FiniteSets, TLC

VARIABLES
    \* Game
    gameState, isPaused, score, correctAnswers, totalQuestions,
    startTime, elapsedTime, difficulty,
    \* GateManager
    gateZ, gateX, triggered, passed, gatesPassed,
    \* SkierController
    px, pz, hasStarted, isCrashed, isTumbling, crashTimer, tumbleTimer,
    recoveryPosition, moveLeft, moveRight, moveForward, moveBackward,
    \* UIManager and the browser
    currentQuestion, buttonsDisabled, startScreen, endScreen, timeouts, now,
    \* history
    questionGate, fired, penalties, slips, last, races, fell,
    \* SkierController kinematics (SpecSkier)
    turnAngle, angularVelocity, velZ, frames,
    \* a second run on the same input events (SpecSkier)
    twin, twinZ,
    \* GateManager.createGates in progress (SpecCourse)
    built, currentZ,
    \* update() calls since the skier fell (SpecController)
    calls,
    \* ObstacleManager's obstacles and spatial grid, and the last
    \* checkCollision or query call with its result (SpecGrid)
    obstacles, spatialGrid, probe

gameVars  == <<gameState, isPaused, score, correctAnswers, totalQuestions,
               startTime, elapsedTime, difficulty>>
gateVars  == <<gateZ, gateX, triggered, passed, gatesPassed>>
skierVars == <<px, pz, hasStarted, isCrashed, isTumbling, crashTimer,
               tumbleTimer, recoveryPosition>>
inputVars == <<moveLeft, moveRight, moveForward, moveBackward>>
uiVars    == <<currentQuestion, buttonsDisabled, startScreen, endScreen, timeouts>>
histVars  == <<questionGate, fired, penalties, slips, last, races, fell>>
kinVars   == <<turnAngle, angularVelocity, velZ>>
gridVars  == <<obstacles, spatialGrid, probe>>
auxVars   == <<kinVars, frames, twin, twinZ, built, currentZ, calls, gridVars>>
vars      == <<gameVars, gateVars, skierVars, inputVars, uiVars, now, histVars,
               auxVars>>

(***************************************************************************)
(* Program constants (GameConfig.ts), lengths in units of 0.05.            *)
(***************************************************************************)
TOTAL_GATES           == 10
GATE_WIDTH            == 160     \* 8
GATE_SPACING          == 800     \* 40
START_Z               == -600    \* -30
POLE_SPACING          == 10      \* 0.5
PLAYER_RADIUS         == 8       \* 0.4
POLE_RADIUS           == 1       \* 0.05
GRAZE_DISTANCE        == 5       \* 0.25
CRASH_DURATION        == 120
TUMBLE_DURATION       == 60
RECOVERY_OFFSET_CRASH == 100     \* 5
BASE_POINTS           == 100
WRONG_ANSWER_PENALTY  == 50
CRASH_PENALTY         == 100
TUMBLE_PENALTY        == 25
TIME_WRONG_ANSWER     == 3000
TIME_CRASH            == 5000
TIME_TUMBLE           == 2000
SKI_PATH_WIDTH        == 500     \* 25
COLLISION_RADIUS      == 20      \* PLAYER.COLLISION_RADIUS = 1
TriggerWindow         == 60      \* "gate.position.z - 3"
TriggerMargin         == 20      \* "gateWidth / 2 + 1"
FlagWindow            == 30      \* "distanceZ > 1.5"
FinishOffset          == 400     \* "- 20" in createFinishArea
FinishTolerance       == 100     \* "_finishLineZ + 5"

\* SCORING.DIFFICULTY_MULTIPLIERS, in tenths
DIFFICULTY_MULTIPLIERS ==
    [easy |-> 10, medium |-> 15, hard |-> 20, expert |-> 30]

Difficulties == {"medium"}

(***************************************************************************)
(* Bounds of the model and the sampled inputs.                             *)
(***************************************************************************)
MaxSlips == 1       \* wrong answers, pole contacts and skipped gates per race
MaxTicks == 1       \* clock ticks in a run
MaxRaces == 2       \* presses of the start button in a run
TickMs   == 1000    \* milliseconds per clock tick

\* gate spacings createGates may draw (40 * [0.75, 1.25]), one per course:
\* 41.3 puts the last gate at z = -443, its trigger window [-446, -443]
\* across the finish detection at z <= -445
Spacings == {826}
\* |baseX| of the gates (randomFloatInRange(4, 12))
BaseXs == {160}
\* sampled skier z around a gate: in the flag window before the gate, at the
\* gate, in the trigger window past the flag window, at the recovery offset
ZOffsets == {20, 0, -40, -100}
\* sampled skier x from the gate centre towards the course centre: centre,
\* graze (0.6 from the inner pole), banner (halfway between the two poles)
XOffsets == {0, 68, 85}

GateIds == 0 .. (TOTAL_GATES - 1)

Abs(n) == IF n < 0 THEN -n ELSE n
Max(a, b) == IF a > b THEN a ELSE b
Min(a, b) == IF a < b THEN a ELSE b

(***************************************************************************)
(* MathUtils                                                               *)
(***************************************************************************)
\* applyScorePenalty, without the floor at zero
applyScorePenalty_NoFloor(currentScore, penalty) == currentScore - penalty

applyScorePenalty(currentScore, penalty) == Max(0, currentScore - penalty)

(***************************************************************************)
(* GateManager                                                             *)
(***************************************************************************)
\* createFinishArea: finishZ = startZ - totalGates * gateSpacing - 20
finishLineZ == START_Z - TOTAL_GATES * GATE_SPACING - FinishOffset

\* createGates: currentZ -= gateSpacing * spacingVariation for each gate; the
\* sides alternate, starting on the left
CourseZ(spacing) == [g \in GateIds |-> START_Z - spacing * (g + 1)]
CourseX(baseX)   == [g \in GateIds |-> IF g % 2 = 0 THEN -baseX ELSE baseX]

\* the condition of checkCollision on one gate
GateReached(gz, gx, g, x, z) ==
    LET hasReachedGate == z <= gz[g]
        justPassed     == z >= gz[g] - TriggerWindow
        distanceX      == Abs(x - gx[g])
    IN  hasReachedGate /\ justPassed /\ 2 * distanceX < GATE_WIDTH + 2 * TriggerMargin

\* checkCollision, not skipping the gates already triggered or passed
checkCollision_NoSkip(trig, pass, gz, gx, x, z) ==
    LET hit == {g \in GateIds : GateReached(gz, gx, g, x, z)}
    IN  IF hit = {} THEN -1 ELSE CHOOSE g \in hit : \A h \in hit : g <= h

\* checkCollision: the index of the first Pending gate reached, or -1
checkCollision(trig, pass, gz, gx, x, z) ==
    LET hit == {g \in GateIds :
                   /\ ~(pass[g] \/ trig[g])
                   /\ GateReached(gz, gx, g, x, z)}
    IN  IF hit = {} THEN -1 ELSE CHOOSE g \in hit : \A h \in hit : g <= h

\* one flag of a gate, the banner test before the pole test
FlagOutcome_TumbleFirst(x, innerPoleX, isLeft) ==
    LET outerPoleX  == IF isLeft THEN innerPoleX - POLE_SPACING
                                 ELSE innerPoleX + POLE_SPACING
    IN  IF x > Min(innerPoleX, outerPoleX) /\ x < Max(innerPoleX, outerPoleX)
        THEN "tumble"
        ELSE IF Abs(x - innerPoleX) < PLAYER_RADIUS + POLE_RADIUS
                \/ Abs(x - outerPoleX) < PLAYER_RADIUS + POLE_RADIUS
        THEN "crash"
        ELSE "none"

\* one flag of a gate (checkFlagCollision's inner loop body)
FlagOutcome(x, innerPoleX, isLeft) ==
    LET outerPoleX  == IF isLeft THEN innerPoleX - POLE_SPACING
                                 ELSE innerPoleX + POLE_SPACING
        distToInner == Abs(x - innerPoleX)
        distToOuter == Abs(x - outerPoleX)
        minPoleX    == Min(innerPoleX, outerPoleX)
        maxPoleX    == Max(innerPoleX, outerPoleX)
    IN  IF distToInner < PLAYER_RADIUS + POLE_RADIUS
           \/ distToOuter < PLAYER_RADIUS + POLE_RADIUS
        THEN "crash"
        ELSE IF x > minPoleX /\ x < maxPoleX
        THEN "tumble"
        ELSE IF distToInner < PLAYER_RADIUS + POLE_RADIUS + GRAZE_DISTANCE
                \/ distToOuter < PLAYER_RADIUS + POLE_RADIUS + GRAZE_DISTANCE
        THEN "graze"
        ELSE "none"

\* both flags of a gate, the left one first; 2 * baseX = 2 * x -+ gateWidth
GateOutcome(gx, g, x) ==
    LET left  == FlagOutcome(x, gx[g] - GATE_WIDTH \div 2, TRUE)
        right == FlagOutcome(x, gx[g] + GATE_WIDTH \div 2, FALSE)
    IN  IF left # "none" THEN left ELSE right

\* checkFlagCollision: the first gate within the z window with an outcome
checkFlagCollision(gz, gx, x, z) ==
    LET hit == {g \in GateIds :
                   /\ ~(Abs(z - gz[g]) > FlagWindow)
                   /\ GateOutcome(gx, g, x) # "none"}
    IN  IF hit = {} THEN [type |-> "none", gate |-> -1]
        ELSE LET g == CHOOSE h \in hit : \A k \in hit : h <= k
             IN  [type |-> GateOutcome(gx, g, x), gate |-> g]

\* passGate's choice, not looking at the triggered flag
NextGate_Any(trig, pass) ==
    LET open == {g \in GateIds : ~pass[g]}
    IN  IF open = {} THEN -1 ELSE CHOOSE g \in open : \A h \in open : g <= h

\* passGate's counter, incremented whether or not a gate was found
passedCount_Always(gp, nextGate) == gp + 1

\* passGate's counter: _gatesPassed++ when a gate was found
passedCount(gp, nextGate) == IF nextGate # -1 THEN gp + 1 ELSE gp

\* passGate's choice: the first gate that is triggered and not passed, or -1
NextGate(trig, pass) ==
    LET open == {g \in GateIds : trig[g] /\ ~pass[g]}
    IN  IF open = {} THEN -1 ELSE CHOOSE g \in open : \A h \in open : g <= h

\* checkFinishLine
checkFinishLine(z) == z <= finishLineZ + FinishTolerance

(***************************************************************************)
(* Game.calculatePoints: Math.round(BASE_POINTS * multiplier)              *)
(***************************************************************************)
\* calculatePoints, without the difficulty multiplier
calculatePoints_Base(d) == BASE_POINTS

calculatePoints(d) == (BASE_POINTS * DIFFICULTY_MULTIPLIERS[d] + 5) \div 10

(***************************************************************************)
(* The sampled positions of the skier.                                     *)
(***************************************************************************)
ZStations ==
    {0, finishLineZ + FinishTolerance}
        \cup {gateZ[g] + d : g \in GateIds, d \in ZOffsets}

\* the next sampled z downhill of z (z itself at the last one)
NextZ(z) ==
    IF \A s \in ZStations : s >= z THEN z
    ELSE CHOOSE s \in ZStations :
             s < z /\ \A t \in ZStations : t < z => s >= t

\* the gate whose surroundings z belongs to
Region(z) ==
    IF \A g \in GateIds : gateZ[g] - RECOVERY_OFFSET_CRASH > z
    THEN TOTAL_GATES - 1
    ELSE CHOOSE g \in GateIds :
             /\ gateZ[g] - RECOVERY_OFFSET_CRASH <= z
             /\ \A h \in GateIds :
                    gateZ[h] - RECOVERY_OFFSET_CRASH <= z => g <= h

XSamples(z) ==
    LET g == Region(z)
    IN  {0} \cup {gateX[g] + (IF gateX[g] < 0 THEN o ELSE -o) : o \in XOffsets}

\* the gates left behind untriggered by a skier at z
Missed(trig, z) ==
    Cardinality({g \in GateIds : ~trig[g] /\ z < gateZ[g] - TriggerWindow})

\* the gates a move from pz to z skips
Skipped(z) == Missed(triggered, z) - Missed(triggered, pz)

\* a pole contact at (x, z)
Falls(x, z) ==
    IF checkFlagCollision(gateZ, gateX, x, z).type \in {"crash", "tumble"}
    THEN 1 ELSE 0

\* the moves the bounds allow a Normal update to sample
MoveAllowed(x, z) ==
    (totalQuestions - correctAnswers) + slips + Skipped(z) + Falls(x, z)
        <= MaxSlips

NoRecovery == [set |-> FALSE, z |-> 0]
NoFrame    == [gate |-> -1, flag |-> "none", finish |-> FALSE]

(***************************************************************************)
(* SkierController                                                         *)
(***************************************************************************)
Skier ==
    [x |-> px, z |-> pz, hasStarted |-> hasStarted, isCrashed |-> isCrashed,
     isTumbling |-> isTumbling, crashTimer |-> crashTimer,
     tumbleTimer |-> tumbleTimer, recoveryPosition |-> recoveryPosition]

clamp(v, lo, hi) == Max(lo, Min(hi, v))

\* recoverFromCrash
recoverFromCrash(s) ==
    LET moved == IF s.recoveryPosition.set
                 THEN [s EXCEPT !.x = 0, !.z = s.recoveryPosition.z,
                                !.recoveryPosition = NoRecovery]
                 ELSE s
    IN  [moved EXCEPT !.hasStarted = TRUE]

\* updateCrashState, its timers expiring below zero
updateCrashState_Late(s, nz) ==
    IF s.isCrashed
    THEN LET t == [s EXCEPT !.crashTimer = s.crashTimer - 1]
         IN  IF t.crashTimer < 0
             THEN recoverFromCrash([t EXCEPT !.isCrashed = FALSE])
             ELSE t
    ELSE IF s.isTumbling
    THEN LET t == [s EXCEPT !.tumbleTimer = s.tumbleTimer - 1, !.z = nz]
         IN  IF t.tumbleTimer < 0 THEN [t EXCEPT !.isTumbling = FALSE] ELSE t
    ELSE s

\* updateCrashState; nz is where a tumbling skier's momentum carries it
updateCrashState(s, nz) ==
    IF s.isCrashed
    THEN LET t == [s EXCEPT !.crashTimer = s.crashTimer - 1]
         IN  IF t.crashTimer <= 0
             THEN recoverFromCrash([t EXCEPT !.isCrashed = FALSE])
             ELSE t
    ELSE IF s.isTumbling
    THEN LET t == [s EXCEPT !.tumbleTimer = s.tumbleTimer - 1, !.z = nz]
         IN  IF t.tumbleTimer <= 0 THEN [t EXCEPT !.isTumbling = FALSE] ELSE t
    ELSE s

\* update, not keeping the skier within the ski path
update_NoClamp(s, nx, nz) ==
    IF ~s.hasStarted THEN s
    ELSE IF s.isCrashed \/ s.isTumbling THEN updateCrashState(s, nz)
    ELSE [s EXCEPT !.x = nx, !.z = nz]

\* update; (nx, nz) is where the velocity carries a Normal skier
update(s, nx, nz) ==
    IF ~s.hasStarted THEN s
    ELSE IF s.isCrashed \/ s.isTumbling THEN updateCrashState(s, nz)
    ELSE [s EXCEPT !.x = clamp(nx, -SKI_PATH_WIDTH, SKI_PATH_WIDTH), !.z = nz]

\* tumble, without its guard
tumble_Unguarded(s) ==
    [s EXCEPT !.isTumbling = TRUE, !.tumbleTimer = TUMBLE_DURATION]

\* tumble
tumble(s) ==
    IF s.isCrashed \/ s.isTumbling THEN s
    ELSE [s EXCEPT !.isTumbling = TRUE, !.tumbleTimer = TUMBLE_DURATION]

\* crash(gateZ), the recovery position at the gate itself
crash_AtGate(s, gz) ==
    IF s.isCrashed THEN s
    ELSE [s EXCEPT !.isCrashed = TRUE, !.isTumbling = FALSE,
                   !.crashTimer = CRASH_DURATION,
                   !.recoveryPosition = [set |-> TRUE, z |-> gz]]

\* crash(gateZ)
crash(s, gz) ==
    IF s.isCrashed THEN s
    ELSE [s EXCEPT !.isCrashed = TRUE, !.isTumbling = FALSE,
                   !.crashTimer = CRASH_DURATION,
                   !.recoveryPosition =
                       [set |-> TRUE, z |-> gz - RECOVERY_OFFSET_CRASH]]

(***************************************************************************)
(* ObstacleManager: the obstacles nearest to the ski path that SceneManager *)
(* places (boulders at |x| >= 32 of radius <= 2.0 * 1.3).                   *)
(***************************************************************************)
Obstacles ==
    {[x |-> 640, z |-> -1400, radius |-> 52],
     [x |-> -640, z |-> -2200, radius |-> 52]}

Dist2(x1, z1, x2, z2) == (x2 - x1) * (x2 - x1) + (z2 - z1) * (z2 - z1)

\* floor of the square root
ISqrt(n) == CHOOSE r \in 0 .. n : r * r <= n /\ n < (r + 1) * (r + 1)

\* ObstacleManager.checkCollision: the pushback of an obstacle closer than
\* playerRadius + obstacle.radius, or no hit
obstacleCollision(x, z) ==
    LET near == {o \in Obstacles :
                    Dist2(x, z, o.x, o.z)
                        < (COLLISION_RADIUS + o.radius) * (COLLISION_RADIUS + o.radius)}
    IN  IF near = {} THEN [hit |-> FALSE, x |-> 0, z |-> 0]
        ELSE LET o       == CHOOSE c \in near : TRUE
                 dist    == Max(1, ISqrt(Dist2(x, z, o.x, o.z)))
                 overlap == COLLISION_RADIUS + o.radius - dist
             IN  [hit |-> TRUE,
                  x |-> ((x - o.x) * overlap) \div dist,
                  z |-> ((z - o.z) * overlap) \div dist]

\* SkierController.applyCollision
applyCollision(s, push) == [s EXCEPT !.x = s.x + push.x, !.z = s.z + push.z]

(***************************************************************************)
(* SpatialGrid and ObstacleManager.checkCollision on it (SpecGrid).  An    *)
(* obstacle is a record with its index in ObstacleManager.obstacles as its *)
(* identity; a cell key is the pair <<cellX, cellZ>>.  Math.floor(a / b)   *)
(* is a \div b.                                                            *)
(***************************************************************************)
GRID_CELL_SIZE_Z == 1000   \* 50
GRID_CELL_SIZE_X == 1000   \* 50
QUERY_MARGIN     == 60     \* the 3 of playerRadius + 3

Range(f) == {f[i] : i \in DOMAIN f}

\* new SpatialGrid(GRID_CELL_SIZE_Z, GRID_CELL_SIZE_X): no cells
SpatialGrid ==
    [cellSizeZ |-> GRID_CELL_SIZE_Z, cellSizeX |-> GRID_CELL_SIZE_X,
     cells |-> [k \in {} |-> <<>>]]

\* no call made on the current obstacles
NoProbe ==
    [kind |-> "none", x |-> 0, z |-> 0, queryRadius |-> 0, playerRadius |-> 0,
     nearby |-> <<>>, hit |-> FALSE, pushX |-> 0, pushZ |-> 0]

\* the cell keys the nested loops of insert and query visit, in loop order:
\* cellX from floor((x - radius) / cellSizeX) to floor((x + radius) / cellSizeX),
\* cellZ likewise
cellKeys(g, x, z, radius) ==
    LET minCellX == (x - radius) \div g.cellSizeX
        maxCellX == (x + radius) \div g.cellSizeX
        minCellZ == (z - radius) \div g.cellSizeZ
        maxCellZ == (z + radius) \div g.cellSizeZ
        nX       == Max(0, maxCellX - minCellX + 1)
        nZ       == Max(0, maxCellZ - minCellZ + 1)
    IN  [i \in 1 .. nX * nZ |->
            <<minCellX + ((i - 1) \div nZ), minCellZ + ((i - 1) % nZ)>>]

\* SpatialGrid.insert: the object is pushed on every cell it overlaps
insert(g, object) ==
    LET keys == Range(cellKeys(g, object.x, object.z, object.radius))
    IN  [g EXCEPT !.cells =
            [k \in DOMAIN g.cells \cup keys |->
                (IF k \in DOMAIN g.cells THEN g.cells[k] ELSE <<>>)
                    \o (IF k \in keys THEN <<object>> ELSE <<>>)]]

\* query's test of the seen set, always passing
unseen_Always(results, obj) == TRUE

\* query's test !seen.has(obj): seen holds the objects in results
unseen(results, obj) == obj \notin Range(results)

\* query's loop over one cell
RECURSIVE appendCell(_, _)
appendCell(results, cell) ==
    IF cell = <<>> THEN results
    ELSE appendCell(IF unseen(results, Head(cell))
                    THEN Append(results, Head(cell)) ELSE results,
                    Tail(cell))

\* query's loop over the cell keys
RECURSIVE visit(_, _, _)
visit(g, keys, results) ==
    IF keys = <<>> THEN results
    ELSE visit(g, Tail(keys),
               IF Head(keys) \in DOMAIN g.cells
               THEN appendCell(results, g.cells[Head(keys)]) ELSE results)

\* SpatialGrid.query
query(g, x, z, queryRadius) == visit(g, cellKeys(g, x, z, queryRadius), <<>>)

\* checkCollision's query radius, only the player's own cell
queryRadius_Point(playerRadius) == 0

\* checkCollision's query radius
queryRadius(playerRadius) == playerRadius + QUERY_MARGIN

\* dist < minDistance for one obstacle
collides(x, z, o, playerRadius) ==
    /\ playerRadius + o.radius > 0
    /\ Dist2(x, z, o.x, o.z) < (playerRadius + o.radius) * (playerRadius + o.radius)

\* ObstacleManager.checkCollision: the pushback of the first nearby obstacle
\* closer than playerRadius + obstacle.radius, or null
obstacleCheckCollision(g, x, z, playerRadius) ==
    LET nearby == query(g, x, z, queryRadius(playerRadius))
        hits   == {i \in 1 .. Len(nearby) : collides(x, z, nearby[i], playerRadius)}
    IN  IF hits = {}
        THEN [nearby |-> nearby, hit |-> FALSE, pushX |-> 0, pushZ |-> 0]
        ELSE LET o       == nearby[CHOOSE i \in hits : \A j \in hits : i <= j]
                 dist    == Max(1, ISqrt(Dist2(x, z, o.x, o.z)))
                 overlap == playerRadius + o.radius - dist
             IN  [nearby |-> nearby, hit |-> TRUE,
                  pushX |-> ((x - o.x) * overlap) \div dist,
                  pushZ |-> ((z - o.z) * overlap) \div dist]

(***************************************************************************)
(* SkierController kinematics (SpecSkier).  Angles are integers in units   *)
(* of 0.0001 rad, velocities in units of 0.00005 per frame (a thousandth   *)
(* of the length unit), factors in thousandths; a frame's displacement is  *)
(* truncated to the length unit and sin is its cubic Taylor polynomial.    *)
(***************************************************************************)
BASE_SPEED             == 1000    \* 0.05
GRAVITY                == 100     \* 0.005
MAX_SPEED              == 8000    \* 0.4
MAX_TURN_ANGLE         == 7854    \* Math.PI / 4
TURN_RATE              == 30      \* 0.003
STRAIGHT_SPEED_BONUS   == 1020    \* 1.02
MIN_TURN_SPEED_FACTOR  == 400     \* 0.4
TURN_SHARPNESS_PENALTY == 8       \* 0.008
ANGULAR_FRICTION       == 85      \* 0.85, in hundredths
RECOVERY_SPEED         == 2000    \* velocity.set(0, 0, -0.1)

\* a / b rounded towards zero
TruncDiv(a, b) == IF a >= 0 THEN a \div b ELSE -((-a) \div b)

\* 10000 * sin(a / 10000), for |a| <= MAX_TURN_ANGLE
Sin(a) == a - TruncDiv(TruncDiv(a * a, 10000) * a, 60000)

\* the input flags of the controller
Input ==
    [left |-> moveLeft, right |-> moveRight,
     forward |-> moveForward, backward |-> moveBackward]

\* the controller with its kinematic state
SkierK ==
    [x |-> px, z |-> pz, hasStarted |-> hasStarted, isCrashed |-> isCrashed,
     isTumbling |-> isTumbling, crashTimer |-> crashTimer,
     tumbleTimer |-> tumbleTimer, recoveryPosition |-> recoveryPosition,
     turnAngle |-> turnAngle, angularVelocity |-> angularVelocity,
     velZ |-> velZ]

\* the controller after construction, Idle at PLAYER.START_POSITION
IdleSkier ==
    [x |-> 0, z |-> 0, hasStarted |-> FALSE, isCrashed |-> FALSE,
     isTumbling |-> FALSE, crashTimer |-> 0, tumbleTimer |-> 0,
     recoveryPosition |-> NoRecovery,
     turnAngle |-> 0, angularVelocity |-> 0, velZ |-> 0]

\* update, "speed-dependent turn rate": effectiveTurnRate at velocity.z = v
effectiveTurnRate(v) ==
    (TURN_RATE * (3000 - 2 * ((1000 * Min(MAX_SPEED, Abs(v))) \div MAX_SPEED)))
        \div 1000

\* update, "apply angular velocity based on input" and the angular friction
turned(s, in) ==
    TruncDiv((IF in.left THEN s.angularVelocity + effectiveTurnRate(s.velZ)
              ELSE IF in.right THEN s.angularVelocity - effectiveTurnRate(s.velZ)
              ELSE s.angularVelocity) * ANGULAR_FRICTION, 100)

\* the steering of update, without the clamp of the turn angle
steer_NoClamp(s, av) ==
    [s EXCEPT !.angularVelocity = av, !.turnAngle = s.turnAngle + av]

\* update, "rotation-based steering": the angular velocity becomes av and
\* the turn angle follows it, clamped to +-maxTurnAngle
steer(s, av) ==
    [s EXCEPT !.angularVelocity = av,
              !.turnAngle = clamp(s.turnAngle + av, -MAX_TURN_ANGLE, MAX_TURN_ANGLE)]

\* update, "speed calculation based on angle": speedFactor, in thousandths
speedFactor(s) ==
    ((STRAIGHT_SPEED_BONUS
        - ((STRAIGHT_SPEED_BONUS - MIN_TURN_SPEED_FACTOR) * Abs(s.turnAngle))
              \div MAX_TURN_ANGLE)
     * Max(700, 1000 - (Abs(s.angularVelocity) * TURN_SHARPNESS_PENALTY * 5)
                           \div 10000))
        \div 1000

\* update, "apply gravity and movement": gravity, then the forward boost
boosted(v, f, in) ==
    v - (GRAVITY * f) \div 1000
      - (IF in.forward THEN (BASE_SPEED * 12 * f) \div 100000 ELSE 0)

\* update: the brake, then the clamp of velocity.z at speed factor f
drive(v, f, in) ==
    clamp(IF in.backward THEN TruncDiv(v * 92, 100) ELSE v,
          -((MAX_SPEED * f) \div 1000), (MAX_SPEED * 15) \div 100)

\* update, "transversal movement": velocity.x
lateral(s) == -TruncDiv(Sin(s.turnAngle) * Abs(s.velZ), 10000)

\* update, "update position with velocity" and the clamp to the ski path
carried(s) ==
    update(s, s.x + TruncDiv(lateral(s), 1000), s.z + TruncDiv(s.velZ, 1000))

\* the velocity.z of a steered skier after gravity, boost, brake and clamp
driven(s, in) ==
    [s EXCEPT !.velZ = drive(boosted(s.velZ, speedFactor(s), in),
                             speedFactor(s), in)]

\* recoverFromCrash: velocity.set(0, 0, -0.1), turnAngle = angularVelocity = 0
recoveredKin(r) ==
    IF r.isCrashed THEN r
    ELSE [r EXCEPT !.velZ = -RECOVERY_SPEED, !.turnAngle = 0,
                   !.angularVelocity = 0]

\* updateCrashState while tumbling: velocity.z -= gravity * 0.3
tumbled(s, v) == update([s EXCEPT !.velZ = v], s.x, s.z + TruncDiv(v, 1000))

\* update with its kinematics: Idle and fallen skiers as in update; a Normal
\* skier steers, drives and is carried by its velocity
kinUpdate(s, in) ==
    IF ~s.hasStarted THEN s
    ELSE IF s.isCrashed THEN recoveredKin(update(s, s.x, s.z))
    ELSE IF s.isTumbling THEN tumbled(s, s.velZ - (GRAVITY * 3) \div 10)
    ELSE carried(driven(steer(s, turned(s, in)), in))

\* applyCollision with its velocity: velocity.z *= 0.5
pushedBack(s, ob) ==
    IF ob.hit THEN [applyCollision(s, ob) EXCEPT !.velZ = TruncDiv(s.velZ, 2)]
    ELSE s

\* the flag collision of a skier on the course (gz, gx)
flagOf(s, gz, gx) ==
    IF ~s.isCrashed /\ ~s.isTumbling THEN checkFlagCollision(gz, gx, s.x, s.z)
    ELSE [type |-> "none", gate |-> -1]

\* crash(gate.z) and tumble() with their velocity: velocity.set(0, 0, 0),
\* velocity.z *= 0.3
fallen(s, gz, fc) ==
    IF fc.type = "crash"
    THEN [crash(s, gz[fc.gate]) EXCEPT
              !.velZ = IF s.isCrashed THEN s.velZ ELSE 0]
    ELSE IF fc.type = "tumble"
    THEN [tumble(s) EXCEPT
              !.velZ = IF s.isCrashed \/ s.isTumbling THEN s.velZ
                       ELSE TruncDiv(s.velZ * 3, 10)]
    ELSE s

\* the skier's part of one animate call on the course (gz, gx): update,
\* obstacle pushback, and crash or tumble on a flag collision
skierFrame(s, in, gz, gx) ==
    CHOOSE r \in
        {fallen(s1, gz, flagOf(s1, gz, gx)) :
            s1 \in {pushedBack(s0, obstacleCollision(s0.x, s0.z)) :
                       s0 \in {kinUpdate(s, in)}}} : TRUE

\* SkierController.reset
reset(s) ==
    [s EXCEPT !.x = 0, !.z = 0, !.hasStarted = FALSE, !.isCrashed = FALSE,
              !.isTumbling = FALSE, !.turnAngle = 0, !.angularVelocity = 0,
              !.velZ = 0]

(***************************************************************************)
(* Game                                                                    *)
(***************************************************************************)
\* the fields of Game and its managers after construction, on the course
\* (gz, gx)
Constructed(gz, gx) ==
    /\ gameState = "menu" /\ isPaused = FALSE
    /\ score = 0 /\ correctAnswers = 0 /\ totalQuestions = 0
    /\ startTime = 0 /\ elapsedTime = 0 /\ difficulty = "medium"
    /\ gateZ = gz /\ gateX = gx
    /\ triggered = [g \in GateIds |-> FALSE]
    /\ passed = [g \in GateIds |-> FALSE]
    /\ gatesPassed = 0
    /\ px = 0 /\ pz = 0 /\ hasStarted = FALSE
    /\ isCrashed = FALSE /\ isTumbling = FALSE
    /\ crashTimer = 0 /\ tumbleTimer = 0 /\ recoveryPosition = NoRecovery
    /\ moveLeft = FALSE /\ moveRight = FALSE
    /\ moveForward = FALSE /\ moveBackward = FALSE
    /\ currentQuestion = FALSE /\ buttonsDisabled = FALSE
    /\ startScreen = TRUE /\ endScreen = FALSE /\ timeouts = 0
    /\ now = 0
    /\ questionGate = -1 /\ fired = [g \in GateIds |-> 0]
    /\ penalties = 0 /\ slips = 0 /\ last = NoFrame /\ races = 0
    /\ fell = {}
    /\ turnAngle = 0 /\ angularVelocity = 0 /\ velZ = 0 /\ frames = 0
    /\ twin = [skier |-> IdleSkier, live |-> TRUE]
    /\ calls = 0
    /\ obstacles = <<>> /\ spatialGrid = SpatialGrid /\ probe = NoProbe

Init ==
    /\ \E sp \in Spacings, bx \in BaseXs :
           Constructed(CourseZ(sp), CourseX(bx))
    /\ twinZ = gateZ
    /\ built = TOTAL_GATES /\ currentZ = gateZ[TOTAL_GATES - 1]

\* the start button: Game.startGame(difficulty), with player.reset() and
\* gateManager.reset()
StartGame ==
    /\ startScreen
    /\ races < MaxRaces /\ races' = races + 1
    /\ \E d \in Difficulties : difficulty' = d
    /\ gameState' = "playing"
    /\ score' = 0 /\ correctAnswers' = 0 /\ totalQuestions' = 0
    /\ startTime' = now /\ elapsedTime' = 0
    /\ px' = 0 /\ pz' = 0 /\ hasStarted' = FALSE
    /\ isCrashed' = FALSE /\ isTumbling' = FALSE
    /\ moveLeft' = FALSE /\ moveRight' = FALSE
    /\ moveForward' = FALSE /\ moveBackward' = FALSE
    /\ gatesPassed' = 0
    /\ triggered' = [g \in GateIds |-> FALSE]
    /\ passed' = [g \in GateIds |-> FALSE]
    /\ startScreen' = FALSE
    /\ fired' = [g \in GateIds |-> 0] /\ penalties' = 0 /\ slips' = 0
    /\ last' = NoFrame /\ fell' = {}
    /\ questionGate' = IF currentQuestion THEN questionGate ELSE -1
    /\ turnAngle' = 0 /\ angularVelocity' = 0 /\ velZ' = 0
    /\ twin' = [skier |-> reset(twin.skier), live |-> TRUE]
    /\ UNCHANGED <<isPaused, gateZ, gateX, crashTimer, tumbleTimer,
                   recoveryPosition, currentQuestion, buttonsDisabled,
                   endScreen, timeouts, now, frames, twinZ, built, currentZ,
                   calls, gridVars>>

\* the "Race Again" button of the end screen
RestartClick ==
    /\ endScreen
    /\ endScreen' = FALSE /\ startScreen' = TRUE
    /\ UNCHANGED <<gameVars, gateVars, skierVars, inputVars, currentQuestion,
                   buttonsDisabled, timeouts, now, histVars, auxVars>>

\* handleKeyDown's switch, a key not releasing the opposite one
handleKeyDown_NoCancel(in, code) ==
    [left     |-> in.left \/ code = "ArrowLeft",
     right    |-> in.right \/ code = "ArrowRight",
     forward  |-> in.forward \/ code = "ArrowUp",
     backward |-> in.backward \/ code = "ArrowDown"]

\* SkierController.handleKeyDown: the input flags after the switch
handleKeyDown(in, code) ==
    [left     |-> IF code = "ArrowLeft" THEN TRUE
                  ELSE IF code = "ArrowRight" THEN FALSE ELSE in.left,
     right    |-> IF code = "ArrowRight" THEN TRUE
                  ELSE IF code = "ArrowLeft" THEN FALSE ELSE in.right,
     forward  |-> IF code = "ArrowUp" THEN TRUE
                  ELSE IF code = "ArrowDown" THEN FALSE ELSE in.forward,
     backward |-> IF code = "ArrowDown" THEN TRUE
                  ELSE IF code = "ArrowUp" THEN FALSE ELSE in.backward]

\* SkierController.handleKeyUp: the input flags after the switch
handleKeyUp(in, code) ==
    [left     |-> IF code = "ArrowLeft" THEN FALSE ELSE in.left,
     right    |-> IF code = "ArrowRight" THEN FALSE ELSE in.right,
     forward  |-> IF code = "ArrowUp" THEN FALSE ELSE in.forward,
     backward |-> IF code = "ArrowDown" THEN FALSE ELSE in.backward]

\* the input flags become in
SetInput(in) ==
    /\ moveLeft' = in.left /\ moveRight' = in.right
    /\ moveForward' = in.forward /\ moveBackward' = in.backward

\* the key codes pressed: a key no case of handleKeyDown binds
Keys == {"Space"}

\* the keydown listener: SkierController.handleKeyDown while Playing
KeyDown ==
    /\ gameState = "playing"
    /\ \E code \in Keys :
        /\ hasStarted' = TRUE
        /\ SetInput(handleKeyDown(Input, code))
    /\ UNCHANGED <<gameVars, gateVars, px, pz, isCrashed, isTumbling, crashTimer,
                   tumbleTimer, recoveryPosition, uiVars, now, histVars, auxVars>>

\* the keyup listener: SkierController.handleKeyUp while Playing
KeyUp ==
    /\ gameState = "playing"
    /\ \E code \in Keys : SetInput(handleKeyUp(Input, code))
    /\ UNCHANGED <<gameVars, gateVars, skierVars, uiVars, now, histVars, auxVars>>

\* pauseGame, not pausing
pauseGame_NoPause == [isPaused |-> FALSE, gameState |-> "playing"]

\* pauseGame: the pause flag and the game state it sets (it also clears the
\* input, see Frame)
pauseGame == [isPaused |-> TRUE, gameState |-> "question"]

\* resumeGame
resumeGame == [isPaused |-> FALSE, gameState |-> "playing"]

\* the timeout's test, off by one
raceComplete_Strict(gp) == gp > TOTAL_GATES

\* the timeout's test "gatesPassed >= totalGates"
raceComplete(gp) == gp >= TOTAL_GATES

\* the skier is neither Idle nor fallen
Normal == hasStarted /\ ~isCrashed /\ ~isTumbling

\* the flag branch of animate: crash(gate.z) or tumble() on the skier
FlagEffect(s, fc) ==
    IF fc.type = "crash" THEN crash(s, gateZ[fc.gate])
    ELSE IF fc.type = "tumble" THEN tumble(s)
    ELSE s

\* the flag branch of animate: the score after the penalty
FlagScore(sc, type) ==
    IF type = "crash" THEN applyScorePenalty(sc, CRASH_PENALTY)
    ELSE IF type = "tumble" THEN applyScorePenalty(sc, TUMBLE_PENALTY)
    ELSE sc

\* the flag branch of animate: the time penalty, not applied
FlagTime_None(type) == 0

\* the flag branch of animate: the time penalty added to elapsedTime
FlagTime(type) ==
    IF type = "crash" THEN TIME_CRASH
    ELSE IF type = "tumble" THEN TIME_TUMBLE
    ELSE 0

\* one call of Game.animate while Playing and not paused, the skier's velocity
\* carrying it to (nx, nz): update, obstacle pushback, flag collision, gate
\* trigger, finish line
FrameStep(nx, nz) ==
    \E s0 \in {update(Skier, nx, nz)} :
    \E ob \in {obstacleCollision(s0.x, s0.z)} :
    \E s1 \in {IF ob.hit THEN applyCollision(s0, ob) ELSE s0} :
    \E fc \in {IF ~s1.isCrashed /\ ~s1.isTumbling
               THEN checkFlagCollision(gateZ, gateX, s1.x, s1.z)
               ELSE [type |-> "none", gate |-> -1]} :
    \E s2 \in {FlagEffect(s1, fc)} :
    \E g \in {IF ~s2.isCrashed /\ ~s2.isTumbling
              THEN checkCollision(triggered, passed, gateZ, gateX, s2.x, s2.z)
              ELSE -1} :
    \E fin \in {checkFinishLine(s2.z)} :
        /\ elapsedTime' = (now - startTime) + FlagTime(fc.type)
        /\ score' = FlagScore(score, fc.type)
        /\ px' = s2.x /\ pz' = s2.z /\ hasStarted' = s2.hasStarted
        /\ isCrashed' = s2.isCrashed /\ isTumbling' = s2.isTumbling
        /\ crashTimer' = s2.crashTimer /\ tumbleTimer' = s2.tumbleTimer
        /\ recoveryPosition' = s2.recoveryPosition
        /\ triggered' = IF g # -1 THEN [triggered EXCEPT ![g] = TRUE]
                        ELSE triggered
        /\ isPaused' = IF g # -1 THEN pauseGame.isPaused ELSE isPaused
        /\ gameState' = IF fin THEN "ended"
                        ELSE IF g # -1 THEN pauseGame.gameState
                        ELSE gameState
        /\ endScreen' = (endScreen \/ fin)
        /\ IF g # -1
           THEN /\ moveLeft' = FALSE /\ moveRight' = FALSE
                /\ moveForward' = FALSE /\ moveBackward' = FALSE
                /\ currentQuestion' = TRUE /\ buttonsDisabled' = FALSE
                /\ questionGate' = g
                /\ fired' = [fired EXCEPT ![g] = @ + 1]
           ELSE UNCHANGED <<inputVars, currentQuestion, buttonsDisabled,
                            questionGate, fired>>
        /\ penalties' = penalties + FlagTime(fc.type)
        /\ slips' = slips
                     + (IF isCrashed THEN 0 ELSE Skipped(s0.z))
                     + (IF fc.type \in {"crash", "tumble"} THEN 1 ELSE 0)
        /\ last' = [gate |-> g, flag |-> fc.type, finish |-> fin]
        /\ fell' = IF fc.type \in {"crash", "tumble"} THEN fell \cup {fc.gate}
                   ELSE fell
        /\ UNCHANGED <<races, correctAnswers, totalQuestions, startTime, difficulty,
                       gateZ, gateX, passed, gatesPassed, startScreen,
                       timeouts, now>>

\* animate's condition, without the test of the game state and the pause flag
Simulating_Always == gameState \in {"playing", "question"}

\* animate's condition: it simulates only while Playing and not paused
Simulating == gameState = "playing" /\ ~isPaused

\* requestAnimationFrame: animate simulates only while Playing and not paused
Frame ==
    /\ Simulating
    /\ \E nz \in {pz, NextZ(pz)} : \E nx \in XSamples(nz) \cup {px} :
        /\ IF Normal THEN MoveAllowed(nx, nz)
           ELSE IF hasStarted /\ isTumbling /\ ~isCrashed THEN nx = px
           ELSE nx = px /\ nz = pz
        /\ FrameStep(nx, nz)
    /\ UNCHANGED auxVars

\* an answer button of the open question: UIManager.onAnswerClick and
\* Game.onAnswerSelected(isCorrect), with gateManager.passGate()
AnswerClick ==
    /\ currentQuestion /\ ~buttonsDisabled
    /\ \E isCorrect \in BOOLEAN :
        /\ ~isCorrect => (totalQuestions - correctAnswers) + slips < MaxSlips
        /\ totalQuestions' = totalQuestions + 1
        /\ IF isCorrect
           THEN LET nextGate == NextGate(triggered, passed)
                IN  /\ correctAnswers' = correctAnswers + 1
                    /\ score' = score + calculatePoints(difficulty)
                    /\ passed' = IF nextGate # -1
                                 THEN [passed EXCEPT ![nextGate] = TRUE]
                                 ELSE passed
                    /\ gatesPassed' = passedCount(gatesPassed, nextGate)
                    /\ UNCHANGED <<elapsedTime, penalties>>
           ELSE /\ score' = applyScorePenalty(score, WRONG_ANSWER_PENALTY)
                /\ elapsedTime' = elapsedTime + TIME_WRONG_ANSWER
                /\ penalties' = penalties + TIME_WRONG_ANSWER
                /\ UNCHANGED <<correctAnswers, passed, gatesPassed>>
    /\ buttonsDisabled' = TRUE
    /\ timeouts' = timeouts + 1
    /\ UNCHANGED <<gameState, isPaused, startTime, difficulty, gateZ, gateX,
                   triggered, skierVars, inputVars, currentQuestion,
                   startScreen, endScreen, now, questionGate, fired, slips, last,
                   races, fell, auxVars>>

\* the setTimeout callback of onAnswerSelected, UI.QUESTION_FEEDBACK_DELAY later
FeedbackTimeout ==
    /\ timeouts > 0
    /\ timeouts' = timeouts - 1
    /\ currentQuestion' = FALSE
    /\ IF raceComplete(gatesPassed)
       THEN /\ gameState' = "ended" /\ endScreen' = TRUE
            /\ UNCHANGED isPaused
       ELSE /\ gameState' = resumeGame.gameState
            /\ isPaused' = resumeGame.isPaused
            /\ UNCHANGED endScreen
    /\ UNCHANGED <<score, correctAnswers, totalQuestions, startTime, elapsedTime,
                   difficulty, gateVars, skierVars, inputVars, buttonsDisabled,
                   startScreen, now, histVars, auxVars>>

\* Date.now() advances
Tick ==
    /\ now < MaxTicks * TickMs
    /\ now' = now + TickMs
    /\ UNCHANGED <<gameVars, gateVars, skierVars, inputVars, uiVars, histVars,
                   auxVars>>

Next ==
    \/ StartGame
    \/ RestartClick
    \/ KeyDown
    \/ KeyUp
    \/ Frame
    \/ AnswerClick
    \/ FeedbackTimeout
    \/ Tick

Spec == Init /\ [][Next]_vars

(***************************************************************************)
(* SpecCourse: GateManager's constructor lays the gates one by one, each   *)
(* at its own random spacing, and a skier then descends the finished       *)
(* course.                                                                 *)
(***************************************************************************)
\* gate spacings createGates may draw for one gate: 40 * 0.875, 40 * 1.25
CourseSpacings == {700, 1000}

\* the constructor before createGates: no gate laid yet
CourseInit ==
    /\ \E bx \in BaseXs : Constructed([g \in GateIds |-> 0], CourseX(bx))
    /\ twinZ = gateZ
    /\ built = 0 /\ currentZ = START_Z

\* one iteration of the loop of createGates
CreateGate ==
    /\ built < TOTAL_GATES
    /\ \E spacing \in CourseSpacings :
        /\ currentZ' = currentZ - spacing
        /\ gateZ' = [gateZ EXCEPT ![built] = currentZ - spacing]
    /\ built' = built + 1
    /\ twinZ' = gateZ'
    /\ UNCHANGED <<gameVars, gateX, triggered, passed, gatesPassed, skierVars,
                   inputVars, uiVars, now, histVars, kinVars, frames, twin,
                   calls, gridVars>>

\* the z at which the finished course changes what a frame detects: the
\* gates and the finish detection
CourseStations == {gateZ[g] : g \in GateIds} \cup {finishLineZ + FinishTolerance}

\* the skier descends to the next such z, until checkFinishLine holds
Descend ==
    /\ built = TOTAL_GATES
    /\ ~checkFinishLine(pz)
    /\ \E z \in CourseStations :
        /\ z < pz
        /\ \A y \in CourseStations : y < pz => y <= z
        /\ pz' = z
    /\ UNCHANGED <<gameVars, gateVars, px, hasStarted, isCrashed, isTumbling,
                   crashTimer, tumbleTimer, recoveryPosition, inputVars, uiVars,
                   now, histVars, auxVars>>

CourseNext ==
    \/ CreateGate
    \/ Descend

SpecCourse == CourseInit /\ [][CourseNext]_vars

(***************************************************************************)
(* SpecFlags: checkFlagCollision applied to a skier anywhere around the    *)
(* flags of the first two gates of a course.                               *)
(***************************************************************************)
\* |baseX| of the gates: randomFloatInRange(4, 12) at 4, 8 and 12
FlagBaseXs == {80, 160, 240}

\* skier z relative to a gate: outside, on the edge of and inside the
\* "distanceZ > 1.5" window, on both sides
FlagZOffsets == {31, 30, 7, 0, -18, -30, -31}

\* how far beyond the outer poles the sampled x extend
FlagXMargin == 20

\* the x of the four poles of gate g
Poles(gx, g) ==
    {gx[g] - GATE_WIDTH \div 2, gx[g] - GATE_WIDTH \div 2 - POLE_SPACING,
     gx[g] + GATE_WIDTH \div 2, gx[g] + GATE_WIDTH \div 2 + POLE_SPACING}

\* the skier somewhere around the flags of gate 0 or gate 1
FlagsInit ==
    /\ gameState = "playing" /\ isPaused = FALSE
    /\ score = 0 /\ correctAnswers = 0 /\ totalQuestions = 0
    /\ startTime = 0 /\ elapsedTime = 0 /\ difficulty = "medium"
    /\ \E sp \in Spacings, bx \in FlagBaseXs :
           gateZ = CourseZ(sp) /\ gateX = CourseX(bx)
    /\ triggered = [g \in GateIds |-> FALSE]
    /\ passed = [g \in GateIds |-> FALSE]
    /\ gatesPassed = 0
    /\ \E g \in {0, 1} :
        /\ pz \in {gateZ[g] + d : d \in FlagZOffsets}
        /\ \E pole \in Poles(gateX, g) :
               px \in (pole - FlagXMargin) .. (pole + FlagXMargin)
    /\ hasStarted = TRUE
    /\ isCrashed = FALSE /\ isTumbling = FALSE
    /\ crashTimer = 0 /\ tumbleTimer = 0 /\ recoveryPosition = NoRecovery
    /\ moveLeft = FALSE /\ moveRight = FALSE
    /\ moveForward = FALSE /\ moveBackward = FALSE
    /\ currentQuestion = FALSE /\ buttonsDisabled = FALSE
    /\ startScreen = FALSE /\ endScreen = FALSE /\ timeouts = 0
    /\ now = 0
    /\ questionGate = -1 /\ fired = [g \in GateIds |-> 0]
    /\ penalties = 0 /\ slips = 0 /\ last = NoFrame /\ races = 1
    /\ fell = {}
    /\ turnAngle = 0 /\ angularVelocity = 0 /\ velZ = 0 /\ frames = 0
    /\ twin = [skier |-> IdleSkier, live |-> TRUE]
    /\ calls = 0
    /\ obstacles = <<>> /\ spatialGrid = SpatialGrid /\ probe = NoProbe
    /\ twinZ = gateZ
    /\ built = TOTAL_GATES /\ currentZ = gateZ[TOTAL_GATES - 1]

\* gateManager.checkFlagCollision(playerPos), its result kept in last
FlagCheck ==
    /\ frames = 0 /\ frames' = 1
    /\ \E fc \in {checkFlagCollision(gateZ, gateX, px, pz)} :
        /\ last' = [gate |-> fc.gate, flag |-> fc.type, finish |-> FALSE]
        /\ fell' = IF fc.type \in {"crash", "tumble"} THEN fell \cup {fc.gate}
                   ELSE fell
    /\ UNCHANGED <<gameVars, gateVars, skierVars, inputVars, uiVars, now,
                   questionGate, fired, penalties, slips, races,
                   kinVars, twin, twinZ, built, currentZ, calls, gridVars>>

FlagsNext == FlagCheck

SpecFlags == FlagsInit /\ [][FlagsNext]_vars

(***************************************************************************)
(* SpecSkier: the game with the kinematics of SkierController.update, from *)
(* the constructed game and from moments of a race in progress, and a      *)
(* second run of the game that receives the same input events on a course  *)
(* of its own.                                                             *)
(***************************************************************************)
MaxFrames == 3      \* updates of a Normal skier in a run

\* the key codes pressed (KeyA, KeyD, KeyW, KeyS share the cases of the arrows)
SkKeys == {"ArrowLeft", "ArrowRight", "ArrowUp", "ArrowDown", "Space"}

\* moments of a race on the course CourseZ(826), CourseX(160), the second
\* run on the course CourseZ(twinSpacing):
\*   carving right at the right edge of the ski path;
\*   running straight at the inner pole of the right flag of gate 0, which
\*   the second run's course has 0.3 further downhill;
\*   running straight at the centre of gate 0
Moments ==
    {[x |-> 499, z |-> -900, velZ |-> -3300, turnAngle |-> -7600,
      angularVelocity |-> -370, right |-> TRUE, twinSpacing |-> 826],
     [x |-> -80, z |-> -1390, velZ |-> -8000, turnAngle |-> 0,
      angularVelocity |-> 0, right |-> FALSE, twinSpacing |-> 832],
     [x |-> -160, z |-> -1419, velZ |-> -8000, turnAngle |-> 0,
      angularVelocity |-> 0, right |-> FALSE, twinSpacing |-> 826]}

\* the race at the moment m
Racing(m) ==
    /\ gameState = "playing" /\ isPaused = FALSE
    /\ score = 0 /\ correctAnswers = 0 /\ totalQuestions = 0
    /\ startTime = 0 /\ elapsedTime = 0 /\ difficulty = "medium"
    /\ \E sp \in Spacings, bx \in BaseXs :
           gateZ = CourseZ(sp) /\ gateX = CourseX(bx)
    /\ triggered = [g \in GateIds |-> FALSE]
    /\ passed = [g \in GateIds |-> FALSE]
    /\ gatesPassed = 0
    /\ px = m.x /\ pz = m.z /\ hasStarted = TRUE
    /\ isCrashed = FALSE /\ isTumbling = FALSE
    /\ crashTimer = 0 /\ tumbleTimer = 0 /\ recoveryPosition = NoRecovery
    /\ moveLeft = FALSE /\ moveRight = m.right
    /\ moveForward = FALSE /\ moveBackward = FALSE
    /\ currentQuestion = FALSE /\ buttonsDisabled = FALSE
    /\ startScreen = FALSE /\ endScreen = FALSE /\ timeouts = 0
    /\ now = 0
    /\ questionGate = -1 /\ fired = [g \in GateIds |-> 0]
    /\ penalties = 0 /\ slips = 0 /\ last = NoFrame /\ races = 1
    /\ fell = {}
    /\ turnAngle = m.turnAngle /\ angularVelocity = m.angularVelocity
    /\ velZ = m.velZ /\ frames = 0
    /\ twin = [skier |-> SkierK, live |-> TRUE]
    /\ calls = 0
    /\ obstacles = <<>> /\ spatialGrid = SpatialGrid /\ probe = NoProbe
    /\ twinZ = CourseZ(m.twinSpacing)
    /\ built = TOTAL_GATES /\ currentZ = gateZ[TOTAL_GATES - 1]

SkInit ==
    \/ Init
    \/ \E m \in Moments : Racing(m)

\* the keydown listener with the keys of the game; the second run's
\* controller receives the same event
SkKeyDown ==
    /\ gameState = "playing"
    /\ \E code \in SkKeys :
        /\ hasStarted' = TRUE
        /\ SetInput(handleKeyDown(Input, code))
    /\ twin' = IF twin.live THEN [twin EXCEPT !.skier.hasStarted = TRUE] ELSE twin
    /\ UNCHANGED <<gameVars, gateVars, px, pz, isCrashed, isTumbling, crashTimer,
                   tumbleTimer, recoveryPosition, uiVars, now, histVars,
                   kinVars, frames, twinZ, built, currentZ, calls, gridVars>>

\* the keyup listener with the keys of the game
SkKeyUp ==
    /\ gameState = "playing"
    /\ \E code \in SkKeys : SetInput(handleKeyUp(Input, code))
    /\ UNCHANGED <<gameVars, gateVars, skierVars, uiVars, now, histVars, auxVars>>

\* the second run's frame: its skier on its own course; it stays in step
\* with the first run while the frames of both open the same gate's
\* question and detect the finish alike
twinFrame(t, in, g, fin) ==
    IF ~t.live THEN t
    ELSE LET k  == skierFrame(t.skier, in, twinZ, gateX)
             tg == IF ~k.isCrashed /\ ~k.isTumbling
                   THEN checkCollision(triggered, passed, twinZ, gateX, k.x, k.z)
                   ELSE -1
         IN  [skier |-> k, live |-> tg = g /\ checkFinishLine(k.z) = fin]

\* Game.animate while Playing and not paused, the skier carried by its
\* velocity
SkFrame ==
    /\ Simulating
    /\ Normal => frames < MaxFrames
    /\ frames' = IF Normal THEN frames + 1 ELSE frames
    /\ \E k \in {kinUpdate(SkierK, Input)} : FrameStep(k.x, k.z)
    /\ \E s \in {skierFrame(SkierK, Input, gateZ, gateX)} :
        /\ turnAngle' = s.turnAngle
        /\ angularVelocity' = s.angularVelocity
        /\ velZ' = s.velZ
    /\ twin' = twinFrame(twin, Input, last'.gate, last'.finish)
    /\ UNCHANGED <<twinZ, built, currentZ, calls, gridVars>>

SkNext ==
    \/ StartGame
    \/ SkKeyDown
    \/ SkKeyUp
    \/ SkFrame
    \/ AnswerClick
    \/ FeedbackTimeout

SpecSkier == SkInit /\ [][SkNext]_vars

(***************************************************************************)
(* SpecController: the calls Game makes on SkierController (update, crash, *)
(* tumble, reset, the key handlers) in any order on a skier that has       *)
(* started, whatever the flags on the course.                              *)
(***************************************************************************)
\* the key codes pressed
CtlKeys == {"ArrowLeft", "ArrowDown"}

\* the gates crash(gateZ) is called for
CtlGates == {0}

\* the moment the calls start from: running straight, at x = -4
CtlInit == \E m \in {n \in Moments : n.x = -80} : Racing(m)

\* the skier's fields become those of s
SetSkier(s) ==
    /\ px' = s.x /\ pz' = s.z /\ hasStarted' = s.hasStarted
    /\ isCrashed' = s.isCrashed /\ isTumbling' = s.isTumbling
    /\ crashTimer' = s.crashTimer /\ tumbleTimer' = s.tumbleTimer
    /\ recoveryPosition' = s.recoveryPosition
    /\ turnAngle' = s.turnAngle /\ angularVelocity' = s.angularVelocity
    /\ velZ' = s.velZ

\* handleKeyDown(code)
CtlKeyDown ==
    /\ \E code \in CtlKeys :
        /\ hasStarted' = TRUE
        /\ SetInput(handleKeyDown(Input, code))
    /\ UNCHANGED <<gameVars, gateVars, px, pz, isCrashed, isTumbling, crashTimer,
                   tumbleTimer, recoveryPosition, uiVars, now, histVars, auxVars>>

\* handleKeyUp(code)
CtlKeyUp ==
    /\ \E code \in CtlKeys : SetInput(handleKeyUp(Input, code))
    /\ UNCHANGED <<gameVars, gateVars, skierVars, uiVars, now, histVars, auxVars>>

\* update()
CtlUpdate ==
    /\ Normal => frames < MaxFrames
    /\ frames' = IF Normal THEN frames + 1 ELSE frames
    /\ calls' = IF hasStarted /\ (isCrashed \/ isTumbling) THEN calls + 1
                ELSE calls
    /\ SetSkier(kinUpdate(SkierK, Input))
    /\ UNCHANGED <<gameVars, gateVars, inputVars, uiVars, now, histVars,
                   twin, twinZ, built, currentZ, gridVars>>

\* crash(gateZ) on a skier that has started (an Idle skier stands at
\* START_POSITION, uphill of every gate)
CtlCrash ==
    /\ hasStarted
    /\ ~isCrashed => slips < MaxSlips
    /\ slips' = IF isCrashed THEN slips ELSE slips + 1
    /\ \E g \in CtlGates :
        /\ SetSkier(fallen(SkierK, gateZ, [type |-> "crash", gate |-> g]))
        /\ fell' = IF isCrashed THEN fell ELSE {g}
    /\ calls' = IF isCrashed THEN calls ELSE 0
    /\ UNCHANGED <<gameVars, gateVars, inputVars, uiVars, now, questionGate,
                   fired, penalties, last, races,
                   frames, twin, twinZ, built, currentZ, gridVars>>

\* tumble() on a skier that has started
CtlTumble ==
    /\ hasStarted
    /\ ~(isCrashed \/ isTumbling) => slips < MaxSlips
    /\ slips' = IF isCrashed \/ isTumbling THEN slips ELSE slips + 1
    /\ SetSkier(fallen(SkierK, gateZ, [type |-> "tumble", gate |-> -1]))
    /\ calls' = IF isCrashed \/ isTumbling THEN calls ELSE 0
    /\ UNCHANGED <<gameVars, gateVars, inputVars, uiVars, now, questionGate,
                   fired, penalties, last, races, fell,
                   frames, twin, twinZ, built, currentZ, gridVars>>

\* reset()
CtlReset ==
    /\ races < MaxRaces /\ races' = races + 1
    /\ SetSkier(reset(SkierK))
    /\ SetInput([left |-> FALSE, right |-> FALSE,
                 forward |-> FALSE, backward |-> FALSE])
    /\ UNCHANGED <<gameVars, gateVars, uiVars, now, questionGate, fired,
                   penalties, slips, last, fell, frames, twin, twinZ, built,
                   currentZ, calls, gridVars>>

CtlNext ==
    \/ CtlKeyDown
    \/ CtlKeyUp
    \/ CtlUpdate
    \/ CtlCrash
    \/ CtlTumble
    \/ CtlReset

SpecController == CtlInit /\ [][CtlNext]_vars

(***************************************************************************)
(* SpecGrid: addObstacle, clear, checkCollision and SpatialGrid.query      *)
(* called in any order on a new ObstacleManager, with obstacles on and     *)
(* next to cell boundaries.                                                *)
(***************************************************************************)
MaxObstacles == 3   \* obstacles added before a clear

\* where addObstacle puts obstacles:
\*   (10, -50) radius 1.5, across the cell boundary z = -50;
\*   (49.5, -20) radius 2.6, across the cell boundary x = 50;
\*   (-1, 0.5) radius 4, across x = 0 and z = 0;
\*   (52, -75) radius 1.5, inside one cell, 0.5 from the boundary x = 50
ObstacleSites ==
    {[x |-> 200, z |-> -1000, radius |-> 30],
     [x |-> 990, z |-> -400, radius |-> 52],
     [x |-> -20, z |-> 10, radius |-> 80],
     [x |-> 1040, z |-> -1500, radius |-> 30]}

\* the positions checkCollision and query are called with
PlayerSites ==
    {[x |-> 200, z |-> -900], [x |-> 200, z |-> -960], [x |-> 200, z |-> -800],
     [x |-> 930, z |-> -400], [x |-> 1060, z |-> -400], [x |-> 1070, z |-> -400],
     [x |-> 60, z |-> 10], [x |-> 995, z |-> -1500], [x |-> 900, z |-> -1500]}

\* the playerRadius arguments of checkCollision: the default, and 2
PlayerRadii == {COLLISION_RADIUS, 40}

\* the queryRadius arguments of query: the default 0, and 5
QueryRadii == {0, 100}

GridInit == Init

\* ObstacleManager.addObstacle
AddObstacle ==
    /\ Len(obstacles) < MaxObstacles
    /\ \E site \in ObstacleSites :
        \E obstacle \in {[id |-> Len(obstacles) + 1, x |-> site.x, z |-> site.z,
                          radius |-> site.radius]} :
            /\ obstacles' = Append(obstacles, obstacle)
            /\ spatialGrid' = insert(spatialGrid, obstacle)
    /\ probe' = NoProbe
    /\ UNCHANGED <<gameVars, gateVars, skierVars, inputVars, uiVars, now,
                   histVars, kinVars, frames, twin, twinZ, built, currentZ, calls>>

\* ObstacleManager.clear
ClearObstacles ==
    /\ obstacles # <<>>
    /\ obstacles' = <<>>
    /\ spatialGrid' = [spatialGrid EXCEPT !.cells = [k \in {} |-> <<>>]]
    /\ probe' = NoProbe
    /\ UNCHANGED <<gameVars, gateVars, skierVars, inputVars, uiVars, now,
                   histVars, kinVars, frames, twin, twinZ, built, currentZ, calls>>

\* ObstacleManager.checkCollision(playerPosition, playerRadius)
CheckPlayer ==
    /\ \E p \in PlayerSites, playerRadius \in PlayerRadii :
        \E c \in {obstacleCheckCollision(spatialGrid, p.x, p.z, playerRadius)} :
            probe' = [kind |-> "collision", x |-> p.x, z |-> p.z,
                      queryRadius |-> queryRadius(playerRadius),
                      playerRadius |-> playerRadius,
                      nearby |-> c.nearby, hit |-> c.hit,
                      pushX |-> c.pushX, pushZ |-> c.pushZ]
    /\ UNCHANGED <<gameVars, gateVars, skierVars, inputVars, uiVars, now,
                   histVars, kinVars, frames, twin, twinZ, built, currentZ, calls,
                   obstacles, spatialGrid>>

\* SpatialGrid.query(x, z, queryRadius)
QueryGrid ==
    /\ \E p \in PlayerSites, r \in QueryRadii :
        probe' = [kind |-> "query", x |-> p.x, z |-> p.z, queryRadius |-> r,
                  playerRadius |-> 0,
                  nearby |-> query(spatialGrid, p.x, p.z, r), hit |-> FALSE,
                  pushX |-> 0, pushZ |-> 0]
    /\ UNCHANGED <<gameVars, gateVars, skierVars, inputVars, uiVars, now,
                   histVars, kinVars, frames, twin, twinZ, built, currentZ, calls,
                   obstacles, spatialGrid>>

GridNext ==
    \/ AddObstacle
    \/ ClearObstacles
    \/ CheckPlayer
    \/ QueryGrid

SpecGrid == GridInit /\ [][GridNext]_vars

(***************************************************************************)
(* Properties.                                                             *)
(***************************************************************************)
\* the gates that are Triggered but not Passed
TriggeredNotPassed == {g \in GateIds : triggered[g] /\ ~passed[g]}

\* the wrong answers counted in this race
WrongAnswers == totalQuestions - correctAnswers

\* C1: within one race checkCollision returns the index of each gate at most
\* once: a gate that is Triggered or Passed is never returned again, whatever
\* the position of the player, so no gate raises its question twice.
C1_GateFiresOnce == \A g \in GateIds : fired[g] <= 1

\* a frame of a Normal skier inside the trigger zone of a gate that has
\* already fired, for which checkCollision returned -1
C1_Witness ==
    /\ gameState = "playing" /\ Normal /\ last.gate = -1
    /\ \E g \in GateIds :
           /\ fired[g] = 1 /\ passed[g]
           /\ GateReached(gateZ, gateX, g, px, pz)

C3_PassesAnsweredGate ==
    [][(/\ correctAnswers' = correctAnswers + 1
        /\ questionGate # -1
        /\ triggered[questionGate] /\ ~passed[questionGate])
       => (/\ passed' = [passed EXCEPT ![questionGate] = TRUE]
           /\ gatesPassed' = gatesPassed + 1)]_vars

\* the gate of the correct answer is left unpassed while an earlier gate,
\* answered wrongly, is Passed
C3_Witness ==
    /\ correctAnswers = 1 /\ totalQuestions = 2 /\ timeouts = 1
    /\ questionGate = 1 /\ ~passed[1] /\ passed[0]

\* every gate has raised its question once, every answer of the race was
\* correct and the feedback delay of the last one is over
AllAnsweredCorrectly ==
    /\ \A g \in GateIds : fired[g] = 1
    /\ correctAnswers = TOTAL_GATES /\ totalQuestions = TOTAL_GATES
    /\ ~currentQuestion /\ timeouts = 0

\* C4: when all ten gates have been triggered in turn and every question
\* answered correctly, after the feedback delay of the last answer
\* gatesPassed = totalGates = 10 and the game is Ended; the finish line need
\* not have been crossed (C4_Witness).
C4_AllCorrectEnds ==
    AllAnsweredCorrectly => (gatesPassed = TOTAL_GATES /\ gameState = "ended")

\* the race has ended on the tenth correct answer, uphill of the finish line
C4_Witness ==
    /\ AllAnsweredCorrectly /\ gameState = "ended" /\ gatesPassed = TOTAL_GATES
    /\ ~checkFinishLine(pz) /\ ~last.finish

\* the race session
session == <<score, elapsedTime, correctAnswers, totalQuestions, gatesPassed>>

\* C5: once Ended the game stays Ended and the race session is not modified
\* by any step other than startGame: no frame, key event, late answer or
\* delayed resume changes them.
C5_EndedFrozen ==
    [][(gameState = "ended" /\ races' = races)
       => (gameState' = "ended" /\ session' = session)]_vars

\* the frame that triggered the last gate also detected the finish line: the
\* game is Ended with the question still open
C5_Witness ==
    /\ gameState = "ended" /\ last.finish /\ last.gate # -1
    /\ currentQuestion /\ ~buttonsDisabled /\ isPaused

\* C6: once a frame has raised a question (pauseGame has set Question), the
\* game stays in Question until the answer is selected: nothing but the
\* answer resolution, finish-line detection included, moves it out.
C6_QuestionUntilAnswer ==
    (last.gate # -1 /\ currentQuestion /\ ~buttonsDisabled)
        => gameState = "question"

\* a question raised by a frame is waiting for its answer in Question
C6_Witness ==
    /\ last.gate # -1 /\ currentQuestion /\ ~buttonsDisabled
    /\ gameState = "question" /\ isPaused

\* C7: the score is never negative, whatever the sequence of wrong answers,
\* crashes, tumbles and correct answers.
C7_ScoreNonNegative == score >= 0

\* a penalty has been applied to a score it would have driven below zero
C7_Witness == score = 0 /\ penalties > 0 /\ gameState # "menu"

\* C8: on a frame in which a Normal skier comes to a position that
\* checkFlagCollision classifies as Crash, the skier becomes Crashed, the
\* score becomes max(0, score - CRASH_PENALTY) and the frame's elapsedTime is
\* increased by the crash time penalty.
C8_CrashFrame ==
    [][(/\ gameState = "playing" /\ ~isPaused /\ Normal
        /\ checkFlagCollision(gateZ, gateX, px', pz').type = "crash"
        /\ Frame)
       => (/\ isCrashed' /\ ~isTumbling' /\ crashTimer' = CRASH_DURATION
           /\ score' = Max(0, score - CRASH_PENALTY)
           /\ elapsedTime' = (now - startTime) + TIME_CRASH)]_vars

\* the skier has just crashed into a pole, with a score above the penalty's
\* floor
C8_Witness ==
    /\ isCrashed /\ crashTimer = CRASH_DURATION /\ last.flag = "crash"
    /\ score > 0 /\ elapsedTime = (now - startTime) + TIME_CRASH

\* C9: time penalties stay in the race time: on every frame elapsedTime is
\* the time since the clock started plus the sum of the penalties incurred
\* so far in the race.
C9_PenaltiesKept ==
    [][Frame => elapsedTime' = (now - startTime) + penalties']_vars

\* a frame after a penalty: the race time no longer holds the penalty
C9_Witness ==
    /\ gameState = "playing" /\ penalties > 0 /\ last.flag = "none"
    /\ elapsedTime = now - startTime

\* x is halfway between the inner and the outer pole of a flag of gate g
BannerMidpoint(g, x) ==
    \/ 2 * x = 2 * (gateX[g] - GATE_WIDTH \div 2) - POLE_SPACING
    \/ 2 * x = 2 * (gateX[g] + GATE_WIDTH \div 2) + POLE_SPACING

\* C10: for a position within the z window of a gate whose x is exactly
\* between the two poles of one of its flags, checkFlagCollision returns
\* Tumble.
C10_BannerTumbles ==
    \A g \in GateIds :
        (~(Abs(pz - gateZ[g]) > FlagWindow) /\ BannerMidpoint(g, px))
            => checkFlagCollision(gateZ, gateX, px, pz).type = "tumble"

\* the skier is in the middle of a banner, and the frame that brought it
\* there classified the position as Crash
C10_Witness ==
    /\ last.flag = "crash" /\ isCrashed /\ crashTimer = CRASH_DURATION
    /\ \E g \in GateIds :
           ~(Abs(pz - gateZ[g]) > FlagWindow) /\ BannerMidpoint(g, px)

\* C11: a fall at a gate defers the gate's question: once the race has run to
\* the finish line, every gate at which the skier crashed or tumbled has been
\* Triggered (its question was asked, before the fall or after the recovery).
C11_QuestionDeferred ==
    (gameState = "ended" /\ last.finish) => \A g \in fell : triggered[g]

\* the skier has recovered from a crash at a gate that had not been Triggered
\* and stands downhill of the gate's trigger zone
C11_Witness ==
    /\ gameState = "playing" /\ Normal /\ ~recoveryPosition.set
    /\ \E g \in fell :
           /\ ~triggered[g] /\ fired[g] = 0
           /\ pz = gateZ[g] - RECOVERY_OFFSET_CRASH
           /\ pz < gateZ[g] - TriggerWindow

\* C12: the race clock starts when the skier leaves Idle: from startGame to
\* the first input that starts the skier, elapsedTime stays 0.
C12_ClockWaitsForStart ==
    (gameState = "playing" /\ ~hasStarted /\ penalties = 0) => elapsedTime = 0

\* a frame has run with the skier still Idle, and the clock shows the time
\* since startGame
C12_Witness ==
    /\ gameState = "playing" /\ ~hasStarted /\ penalties = 0
    /\ elapsedTime = now - startTime /\ elapsedTime > 0

\* the documented points of a correct answer (README, Scoring)
DocumentedPoints == [easy |-> 100, medium |-> 150, hard |-> 200, expert |-> 300]

\* C14: each answer resolution (the step that schedules the feedback
\* timeout) increments totalQuestions by one; a correct answer adds
\* round(100 x multiplier) points (100, 150, 200, 300) and increments
\* correctAnswers; a wrong answer subtracts 50 points, floored at 0, and
\* leaves correctAnswers and gatesPassed unchanged.
C14_AnswerUpdatesSession ==
    [][(timeouts' = timeouts + 1)
       => (/\ \A d \in DOMAIN DocumentedPoints :
                  calculatePoints(d) = DocumentedPoints[d]
           /\ totalQuestions' = totalQuestions + 1
           /\ \/ /\ correctAnswers' = correctAnswers + 1
                 /\ score' = score + DocumentedPoints[difficulty]
              \/ /\ correctAnswers' = correctAnswers
                 /\ gatesPassed' = gatesPassed
                 /\ score' = Max(0, score - WRONG_ANSWER_PENALTY))]_vars

\* a wrong answer and a correct answer have both been counted in one race
C14_Witness ==
    /\ totalQuestions = 2 /\ correctAnswers = 1 /\ timeouts = 1
    /\ score \in {100, 150}

\* C19: a restarted race is live: a startGame that follows an Ended race
\* leaves the game Playing and not paused, so that the next frame simulates.
C19_RestartIsLive ==
    [][(gameState = "ended" /\ races' = races + 1)
       => (gameState' = "playing" /\ ~isPaused')]_vars

\* a restarted race that no frame and no answer can move: Playing, paused,
\* with no question open and no timeout pending
C19_Witness ==
    /\ races = 2 /\ gameState = "playing" /\ isPaused
    /\ ~currentQuestion /\ timeouts = 0 /\ pz = 0

\* C20: when the finish detection first holds for a descending skier, every
\* gate of the generated course has been reached (no gate lies further
\* downhill than the skier)
C20_FinishBehindLastGate ==
    (built = TOTAL_GATES /\ checkFinishLine(pz))
        => \A g \in GateIds : gateZ[g] >= pz

\* a course whose last gate lies beyond the finish detection, its trigger
\* window unreached when the race ends
C20_Witness ==
    /\ built = TOTAL_GATES
    /\ pz = finishLineZ + FinishTolerance
    /\ gateZ[TOTAL_GATES - 1] < pz - TriggerWindow
    /\ \A g \in GateIds : g > 0 => gateZ[g - 1] - gateZ[g] \in CourseSpacings

\* C13: the skier leaves Idle only when the forward key is pressed (a step
\* that sets hasStarted leaves moveForward set)
C13_OnlyForwardStarts ==
    [][(~hasStarted /\ hasStarted') => moveForward']_vars

\* a race started with the left key alone: after one update the skier has
\* turned and gained speed, the forward flag clear
C13_Witness ==
    /\ races = 1 /\ hasStarted /\ frames = 1
    /\ moveLeft /\ ~moveForward
    /\ turnAngle > 0 /\ velZ < 0

\* C15: the skier's lateral position stays within the ski path, |x| <= 25,
\* at the end of every frame
C15_WithinSkiPath == Abs(px) <= SKI_PATH_WIDTH

\* the skier carved into the right edge of the ski path and held there
C15_Witness ==
    /\ px = SKI_PATH_WIDTH /\ frames >= 1
    /\ turnAngle < 0 /\ velZ < 0 /\ Normal

\* C16: the turn angle stays within +-MAX_TURN_ANGLE after every step, and
\* is 0 after a crash recovery and after a reset
C16_TurnAngleBounded ==
    [][/\ Abs(turnAngle') <= MAX_TURN_ANGLE
       /\ (isCrashed /\ ~isCrashed') => turnAngle' = 0
       /\ (races' # races) => turnAngle' = 0]_vars

\* the turn angle held at the clamp while the angular velocity still pushes
\* it further right
C16_Witness ==
    /\ turnAngle = -MAX_TURN_ANGLE /\ angularVelocity < -300
    /\ frames >= 1 /\ Normal

\* C17: moveLeft and moveRight are never both set, nor moveForward and
\* moveBackward
C17_InputExclusive ==
    /\ ~(moveLeft /\ moveRight)
    /\ ~(moveForward /\ moveBackward)

\* the left key pressed while the right key was held, and the down key
\* after the up key: each cancelled its opposite
C17_Witness ==
    /\ px = 499 /\ frames = 0 /\ hasStarted
    /\ moveLeft /\ ~moveRight /\ moveBackward /\ ~moveForward

\* C18: two runs that receive the same input events and stay in the same
\* game state have the same position after every frame
C18_SameTrajectory ==
    twin.live => (twin.skier.x = px /\ twin.skier.z = pz)

\* both runs crashed into the right flag of gate 0 and recovered, each 5
\* uphill of its own gate 0, at different z
C18_Witness ==
    /\ twin.live /\ 0 \in fell
    /\ Normal /\ twin.skier.hasStarted
    /\ ~twin.skier.isCrashed /\ ~twin.skier.isTumbling
    /\ twin.skier.z = twinZ[0] - RECOVERY_OFFSET_CRASH
    /\ pz <= gateZ[0] - RECOVERY_OFFSET_CRASH
    /\ twin.skier.x = px /\ twin.skier.z # pz

\* C25: within one race no gate's triggered or passed flag reverts to
\* false, and no gate is passed without being triggered
C25_GateStateAdvances ==
    [][(races' = races) =>
          \A g \in GateIds :
              /\ triggered[g] => triggered'[g]
              /\ passed[g] => passed'[g]
              /\ passed'[g] => triggered'[g]]_vars

\* a gate Passed, a later gate Triggered and awaiting its answer, and an
\* earlier gate still Pending
C25_Witness ==
    /\ ~triggered[0] /\ ~passed[0]
    /\ triggered[1] /\ passed[1]
    /\ triggered[2] /\ ~passed[2] /\ currentQuestion

\* C29: isPaused is true exactly when the game state is Question
C29_PauseIffQuestion == isPaused <=> (gameState = "question")

\* the race ended by the answer to the last gate: Ended, all gates passed,
\* the pause flag still set
C29_Witness ==
    /\ gameState = "ended" /\ isPaused
    /\ gatesPassed = TOTAL_GATES /\ ~currentQuestion /\ timeouts = 0

\* C30: 0 <= gatesPassed <= correctAnswers <= totalQuestions, gatesPassed <=
\* totalGates, and gatesPassed counts the gates whose passed flag is set
C30_CountersOrdered ==
    /\ 0 <= gatesPassed
    /\ gatesPassed <= correctAnswers
    /\ correctAnswers <= totalQuestions
    /\ gatesPassed <= TOTAL_GATES
    /\ gatesPassed = Cardinality({g \in GateIds : passed[g]})

\* a correct answer that found no gate to pass, after one that did
C30_Witness ==
    /\ gatesPassed >= 1 /\ correctAnswers > gatesPassed
    /\ totalQuestions >= correctAnswers

\* the skier is in the z window of a gate and within playerRadius +
\* poleRadius of one of its four poles
NearPole ==
    \E g \in GateIds :
        /\ Abs(pz - gateZ[g]) <= FlagWindow
        /\ \E pole \in Poles(gateX, g) :
               Abs(px - pole) < PLAYER_RADIUS + POLE_RADIUS

\* C21: for a skier within playerRadius + poleRadius of a pole of a gate in
\* the z window, checkFlagCollision returns Crash
C21_CrashPreempts ==
    (frames = 1 /\ NearPole) => last.flag = "crash"

\* a skier strictly between the two poles of a right flag, where the banner
\* test holds as well, classified Crash
C21_Witness ==
    /\ frames = 1 /\ last.flag = "crash" /\ last.gate = 0
    /\ px > gateX[0] + GATE_WIDTH \div 2
    /\ px < gateX[0] + GATE_WIDTH \div 2 + POLE_SPACING
    /\ Abs(pz - gateZ[0]) = FlagWindow

\* C22: a Crashed skier becomes Normal on the CRASH_DURATION-th update
\* after the crash, at x = 0 and z = gateZ - RECOVERY_OFFSET_CRASH with turn
\* angle 0; a Tumbling skier becomes Normal on the TUMBLE_DURATION-th update
\* after the tumble, its x unchanged; neither stays fallen longer
C22_RecoveryAfterFixedFrames ==
    [][/\ (isCrashed /\ ~isCrashed' /\ races' = races) =>
              /\ calls' = CRASH_DURATION /\ Normal'
              /\ px' = 0 /\ turnAngle' = 0
              /\ \E g \in fell : pz' = gateZ[g] - RECOVERY_OFFSET_CRASH
       /\ (isTumbling /\ ~isTumbling' /\ ~isCrashed' /\ races' = races) =>
              /\ calls' = TUMBLE_DURATION /\ Normal'
              /\ px' = px
       /\ isCrashed' => calls' < CRASH_DURATION
       /\ isTumbling' => calls' < TUMBLE_DURATION]_vars

\* a skier that tumbled off the line it ran on and is Normal again after
\* TUMBLE_DURATION updates, further downhill at the same x
C22_Witness ==
    /\ Normal /\ calls = TUMBLE_DURATION /\ slips = 1 /\ races = 1
    /\ tumbleTimer = 0 /\ px = -80 /\ pz < -1398

\* the input flags as the key handlers can leave them
Inputs ==
    {in \in [left : BOOLEAN, right : BOOLEAN,
             forward : BOOLEAN, backward : BOOLEAN] :
        ~(in.left /\ in.right) /\ ~(in.forward /\ in.backward)}

\* C23: isCrashed and isTumbling are never both set, and while either is
\* set an update gives the same turn angle, position and velocity whatever
\* the input flags
C23_OneMotionState ==
    /\ ~(isCrashed /\ isTumbling)
    /\ (isCrashed \/ isTumbling) =>
           \A in \in Inputs :
               \E a \in {kinUpdate(SkierK, in)} :
               \E b \in {kinUpdate(SkierK, Input)} :
                   /\ a.turnAngle = b.turnAngle /\ a.x = b.x /\ a.z = b.z
                   /\ a.velZ = b.velZ

\* a skier that was steering left when it tumbled, the left and brake keys
\* held during the tumble
C23_Witness ==
    /\ isTumbling /\ ~isCrashed /\ calls >= 1
    /\ moveLeft /\ moveBackward /\ turnAngle > 0 /\ velZ < 0

\* C28: the frame that crashes the skier applies the crash penalty once; no
\* frame applies a penalty while the skier is Crashed; the recovery puts
\* the skier at x = 0, 5 downhill of the gate it hit, outside that gate's
\* flag window and clear of every flag
C28_OneCrashOnePenalty ==
    [][(races' = races) =>
        /\ (~isCrashed /\ isCrashed') =>
               /\ penalties' = penalties + TIME_CRASH
               /\ score' = applyScorePenalty(score, CRASH_PENALTY)
        /\ (isCrashed /\ timeouts' = timeouts) =>
               /\ penalties' = penalties
               /\ score' = score
        /\ (isCrashed /\ ~isCrashed') =>
               /\ px' = 0
               /\ \E g \in fell :
                      /\ pz' = gateZ[g] - RECOVERY_OFFSET_CRASH
                      /\ Abs(pz' - gateZ[g]) > FlagWindow
               /\ checkFlagCollision(gateZ, gateX, px', pz').type
                      \notin {"crash", "tumble"}]_vars

\* the skier recovered from its crash at gate 3 and skied on, the one crash
\* penalty on the clock
C28_Witness ==
    /\ Normal /\ crashTimer = 0 /\ fell = {3}
    /\ pz < gateZ[3] - RECOVERY_OFFSET_CRASH
    /\ penalties = TIME_CRASH /\ races = 1

\* C24: while the game state is Question no input flag is set, and no step
\* of the race (a frame, a key event, an answer, a feedback timeout)
\* changes the skier's position, velocity, turn angle, crash and tumble
\* timers, the gates' triggered flags or the input flags; only an answer
\* changes a gate's passed flag; the step that enters Question leaves all
\* four input flags cleared
C24_QuestionSuspends ==
    [][/\ (gameState # "question" /\ gameState' = "question") =>
              ~moveLeft' /\ ~moveRight' /\ ~moveForward' /\ ~moveBackward'
       /\ (gameState = "question" /\ races' = races) =>
              /\ ~moveLeft /\ ~moveRight /\ ~moveForward /\ ~moveBackward
              /\ UNCHANGED <<skierVars, kinVars, inputVars, triggered>>
              /\ timeouts' = timeouts => passed' = passed]_vars

\* the question of gate 0 is open; the skier was steering when the gate
\* opened it (it still has angular velocity) and no input flag is set
C24_Witness ==
    /\ gameState = "question" /\ isPaused /\ questionGate = 0
    /\ frames >= 1 /\ angularVelocity # 0 /\ velZ < 0
    /\ ~moveLeft /\ ~moveRight /\ ~moveForward /\ ~moveBackward

\* the cell with key k covers a part of the range [x - r, x + r] x [z - r, z + r]
Overlapped(k, x, z, r) ==
    /\ k[1] * spatialGrid.cellSizeX <= x + r
    /\ x - r < (k[1] + 1) * spatialGrid.cellSizeX
    /\ k[2] * spatialGrid.cellSizeZ <= z + r
    /\ z - r < (k[2] + 1) * spatialGrid.cellSizeZ

\* the cells of the grid the last call's range overlaps
ProbedCells ==
    {k \in DOMAIN spatialGrid.cells :
        Overlapped(k, probe.x, probe.z, probe.queryRadius)}

\* C26: checkCollision returns a pushback exactly when some added obstacle
\* is closer to the player than playerRadius + obstacle.radius
C26_GridAgreesWithScan ==
    probe.kind = "collision" =>
        (probe.hit <=>
            \E i \in 1 .. Len(obstacles) :
                Dist2(probe.x, probe.z, obstacles[i].x, obstacles[i].z)
                    < (probe.playerRadius + obstacles[i].radius)
                        * (probe.playerRadius + obstacles[i].radius))

\* checkCollision at (49.75, -75) returned a pushback from the obstacle at
\* (52, -75), which is registered in the neighbouring cell only, with two
\* more obstacles in the grid
C26_Witness ==
    /\ probe.kind = "collision" /\ probe.hit /\ probe.pushX < 0
    /\ probe.x = 995 /\ probe.z = -1500 /\ probe.playerRadius = COLLISION_RADIUS
    /\ Len(obstacles) = 3 /\ Len(probe.nearby) = 1
    /\ \A k \in DOMAIN spatialGrid.cells :
           probe.nearby[1] \in Range(spatialGrid.cells[k]) => k[1] = 1

\* C27: query returns the objects registered in a cell that the range
\* [x - r, x + r] x [z - r, z + r] overlaps, and no others, each once
C27_QueryReturnsRegistered ==
    probe.kind # "none" =>
        /\ Range(probe.nearby)
               = {o \in Range(obstacles) :
                     \E k \in ProbedCells : o \in Range(spatialGrid.cells[k])}
        /\ Len(probe.nearby) = Cardinality(Range(probe.nearby))

\* query over four cells returned two of three obstacles, one of them
\* registered in all four cells
C27_Witness ==
    /\ probe.kind = "query" /\ Cardinality(ProbedCells) = 4
    /\ Len(probe.nearby) = 2 /\ Len(obstacles) = 3
    /\ \E o \in Range(probe.nearby) :
           \A k \in ProbedCells : o \in Range(spatialGrid.cells[k])

====
